---- MODULE Spec2Model ----
(***************************************************************************)
(* Model of the case-study writer: Case_writer_v1.py (plain prompt chain)  *)
(* and Case_writer_v2_beta.py (search-augmented, agentic prompt chain).    *)
(*                                                                         *)
(* Python strings are sequences of tokens: a token is a literal fragment   *)
(* of a template or an atomic piece of free text (a form field, one        *)
(* generated text, one search hit's title).  Concatenation is \o, and a    *)
(* text "contains" another when the other's tokens occur in it             *)
(* contiguously.  A Python value that may be None is a record              *)
(* [is_none, s]; formatting it into an f-string yields the token "None".   *)
(***************************************************************************)
EXTENDS Integers, Sequences, FiniteSets, TLC

(***************************************************************************)
(* Bounds of the model.                                                    *)
(***************************************************************************)
\* longest query batch handed to the search client on its own
MaxQueries == 2
\* most hits one search response carries in the search client's own check
MaxItems == 2
\* most departures of one run from the plain path: a generation call that
\* fails, or a section for which the agent decides to search
MaxFaults == 2

(***************************************************************************)
(* Strings and optional values.                                            *)
(***************************************************************************)
NoneVal == [is_none |-> TRUE, s |-> <<>>]

Str(s) == [is_none |-> FALSE, s |-> s]

\* f"{v}" for a value that may be None
Fmt(v) == IF v.is_none THEN <<"None">> ELSE v.s

RECURSIVE Join(_, _)
\* sep.join(parts) for a sequence of strings
Join(sep, parts) ==
    IF parts = <<>> THEN <<>>
    ELSE IF Len(parts) = 1 THEN parts[1]
    ELSE parts[1] \o sep \o Join(sep, Tail(parts))

\* needle occurs in hay as a contiguous run of tokens
Contains(hay, needle) ==
    \E i \in 0..(Len(hay) - Len(needle)) :
        \A j \in 1..Len(needle) : hay[i + j] = needle[j]

\* number of places where needle occurs in hay
Occurrences(hay, needle) ==
    Cardinality({i \in 0..(Len(hay) - Len(needle)) :
        \A j \in 1..Len(needle) : hay[i + j] = needle[j]})

(***************************************************************************)
(* Search client (v2): perform_google_search.                              *)
(* A response of the search endpoint to one query is [ok, items]: ok is    *)
(* FALSE when execute() raises; an item is [title, link, snippet], and a   *)
(* link of NoLink is a hit whose 'link' is missing or empty.               *)
(***************************************************************************)
NoLink == ""

SearchFailed == <<"Search failed.">>

NoNewResults == <<"No new search results found.">>

\* the f-string of line 69
FormatItem(item) ==
    <<"- Title: ", item.title, "\n  URL: ", item.link, "\n  Snippet: ", item.snippet, "\n">>

\* faulty variant of SeenCheck: the link is not looked up in seen_links
SeenCheckNoLookup(link, seen_links) == link /= NoLink

\* the condition of line 68: `link and link not in seen_links`
SeenCheck(link, seen_links) == link /= NoLink /\ link \notin seen_links

RECURSIVE ItemLoop(_, _, _)
\* the inner loop (lines 66-70) over one response's items; acc = [text, seen] is
\* all_results_text and seen_links
ItemLoop(items, acc, k) ==
    IF k > Len(items) THEN acc
    ELSE LET link == items[k].link
         IN  IF SeenCheck(link, acc.seen)
             THEN ItemLoop(items,
                           [text |-> acc.text \o FormatItem(items[k]),
                            seen |-> acc.seen \cup {link}],
                           k + 1)
             ELSE ItemLoop(items, acc, k + 1)

\* faulty variant of OnQueryError: the hits collected so far are returned
OnQueryErrorPartial(acc, issued) == [failed |-> TRUE, text |-> acc.text, issued |-> issued]

\* the except clause of lines 72-74, reached from execute() of line 65
OnQueryError(acc, issued) == [failed |-> TRUE, text |-> SearchFailed, issued |-> issued]

RECURSIVE QueryLoop(_, _, _, _)
\* the outer loop (lines 63-70); q is the index of the next query.  The result
\* is [failed, text, issued]: issued counts the execute() calls made.
QueryLoop(queries, responses, acc, q) ==
    IF q > Len(queries) THEN [failed |-> FALSE, text |-> acc.text, issued |-> q - 1]
    ELSE IF ~responses[q].ok THEN OnQueryError(acc, q)
    ELSE QueryLoop(queries, responses, ItemLoop(responses[q].items, acc, 1), q + 1)

\* perform_google_search(queries): build_ok is FALSE when build() raises, iterable is
\* FALSE when `for query in queries` raises (queries is not iterable).  Returns
\* [text, issued].
perform_google_search(queries, responses, build_ok, iterable) ==
    IF ~build_ok \/ ~iterable THEN [text |-> SearchFailed, issued |-> 0]
    ELSE LET r == QueryLoop(queries, responses, [text |-> <<>>, seen |-> {}], 1)
         IN  IF r.failed THEN [text |-> r.text, issued |-> r.issued]
             ELSE [text |-> IF r.text /= <<>> THEN r.text ELSE NoNewResults,
                   issued |-> r.issued]

(***************************************************************************)
(* Generation client: call_gemini (the same in both variants).             *)
(* A history argument is [is_none, turns]; a turn is [role, parts].        *)
(* An outcome of the endpoint is [ok, text]: ok is FALSE when the call (or *)
(* reading response.text) raises.                                          *)
(***************************************************************************)
NoHistory == [is_none |-> TRUE, turns |-> <<>>]

Hist(turns) == [is_none |-> FALSE, turns |-> turns]

Turn(role, text) == [role |-> role, parts |-> text]

\* faulty variant of GeminiFailure: the failed call hands back an emptied history
GeminiFailureReset(chat_history) ==
    [text |-> NoneVal, history |-> IF chat_history.is_none THEN chat_history ELSE Hist(<<>>)]

\* the except clause: return None, chat_history
GeminiFailure(chat_history) == [text |-> NoneVal, history |-> chat_history]

\* faulty variant of GeminiSuccess: the model turn is not recorded
GeminiSuccessNoModelTurn(prompt, chat_history, text) ==
    [text |-> Str(text),
     history |-> Hist((IF chat_history.is_none THEN <<>> ELSE chat_history.turns)
                      \o <<Turn("user", prompt)>>)]

\* the two return statements of the try block; ChatSession.send_message appends
\* the user turn and the model turn to a copy of the history it was started with
GeminiSuccess(prompt, chat_history, text) ==
    IF ~chat_history.is_none
    THEN [text |-> Str(text),
          history |-> Hist(chat_history.turns
                           \o <<Turn("user", prompt), Turn("model", text)>>)]
    ELSE [text |-> Str(text),
          history |-> Hist(<<Turn("user", prompt), Turn("model", text)>>)]

\* faulty variant of call_gemini: the chat is started without the history given
call_gemini_fresh(prompt, chat_history, outcome) ==
    IF outcome.ok
    THEN GeminiSuccess(prompt, IF chat_history.is_none THEN chat_history ELSE Hist(<<>>),
                       outcome.text)
    ELSE GeminiFailure(chat_history)

\* call_gemini(prompt, chat_history) under one outcome of the endpoint
call_gemini(prompt, chat_history, outcome) ==
    IF outcome.ok THEN GeminiSuccess(prompt, chat_history, outcome.text)
    ELSE GeminiFailure(chat_history)

\* faulty variant of DroppedHistory: the history the call returns is taken over
DroppedHistoryKept(chat_history, returned) == returned.turns

\* `report, _ = call_gemini(...)` and `query_response_text, _ = call_gemini(...)`:
\* the history the call returns is dropped, the run's chat_history stays
DroppedHistory(chat_history, returned) == chat_history

(***************************************************************************)
(* Form inputs, the section table and the prompt templates.                *)
(***************************************************************************)
Variants == {"v1", "v2"}

\* the instructor form's fields on "Save Instructor Setup" (v1 lines 82-95,
\* v2 lines 101-111)
InstructorForm(v) ==
    IF v = "v1"
    THEN [institution |-> <<"Example Business School">>, course_title |-> <<"Strategy 101">>,
          discipline |-> <<"Business Strategy">>, target_audience |-> <<"MBA Students">>,
          case_topic |-> <<"market entry">>, learning_objectives |-> <<"objectives X">>,
          student_questions |-> <<"questions Y">>]
    ELSE [discipline |-> <<"Business Strategy">>, target_audience |-> <<"MBA Students">>,
          case_topic |-> <<"market entry">>, learning_objectives |-> <<"objectives X">>,
          student_questions |-> <<"questions Y">>]

\* what the instructor may type
InstructorForms(v) == {InstructorForm(v)}

\* what the student may type
StudentForms == {[company_name |-> <<"Acme">>, job_title |-> <<"CSO">>]}

\* st.session_state.instructor_data = None
NoInstructor == [unset |-> TRUE]

\* sections_to_write (v1 lines 143-151, v2 lines 174-182); the description of
\* "Supplementary Materials" differs between the variants
sections_to_write(v) ==
    << [step |-> 4, title |-> "Introduction", description |-> <<"Background Information: ...">>],
       [step |-> 5, title |-> "Case Study Narrative", description |-> <<"Company Overview: ...">>],
       [step |-> 6, title |-> "Analysis of Strategic Decisions",
        description |-> <<"Strategic Decision-Making Process: ...">>],
       [step |-> 7, title |-> "Critical Discussion", description |-> <<"Discussion Points: ...">>],
       [step |-> 8, title |-> "Reflection and Application",
        description |-> <<"Reflective Questions: ...">>],
       [step |-> 9, title |-> "Supplementary Materials",
        description |-> IF v = "v1" THEN <<"Graphs and Charts: ...">> ELSE <<"Data Sources: ...">>],
       [step |-> 10, title |-> "Conclusion", description |-> <<"Recap: ...">>] >>

NumSections == Len(sections_to_write("v1"))

\* the key f"{section['step']}_{section['title']}"
SectionKey(section) == <<section.step, section.title>>

\* the key f"{section['step']}_{section['title']}_search"
SearchKey(section) == <<section.step, section.title, "search">>

\* search_queries of step 0 (v2 lines 133-138)
InitialQueries(company_name, instructor) ==
    << company_name \o <<" ">> \o instructor.case_topic,
       <<"financial reports of ">> \o company_name \o <<" in the context of ">>
           \o instructor.case_topic,
       <<"performance analysis of ">> \o company_name \o <<" in the context of ">>
           \o instructor.case_topic,
       <<"strategic challenges and opportunities of ">> \o company_name
           \o <<" in the context of ">> \o instructor.case_topic >>

\* prompt_step1 (v1 line 118, v2 lines 144-149)
PromptStep1(v, company_name, instructor, initial_sources) ==
    <<"In the role of an expert corporate analyst ... for the leadership board of ">>
    \o company_name \o <<". The topic of the report is: ">> \o instructor.case_topic
    \o (IF v = "v2"
        THEN <<".\nUse the following live web search results ...:\n---\n">>
             \o initial_sources \o <<"\n---\nThe leadership board wants to learn the following: ">>
        ELSE <<". The leadership board wants to learn the following: ">>)
    \o instructor.learning_objectives
    \o <<". The leadership board wants to be able to answer the following questions: ">>
    \o instructor.student_questions \o <<".">>

\* persona_prompt (v1 lines 124-130, v2 lines 155-161); only v2 names the audience
PersonaPrompt(v, company_name, job_title, instructor) ==
    <<"Your role: You are a deep expert in ">> \o instructor.discipline
    \o <<" with over 10 years of experience as ">> \o job_title \o <<" at ">> \o company_name
    \o <<". ... Your expertise: You have over 10 years of experience as ">> \o job_title
    \o <<" at ">> \o company_name
    \o (IF v = "v2"
        THEN <<". ... case studies for ">> \o instructor.target_audience
             \o <<" in top tier business schools. ... for ">> \o instructor.target_audience
             \o <<" at top tier business schools, ...">>
        ELSE <<". ... case studies for MBA programs in ivy league business schools. ...">>)

PersonaAck == <<"Understood. I will now act as this persona for all subsequent tasks.">>

case_structure == <<"- Title Page\n- Introduction\n- ... - Conclusion">>

\* prompt_step3 (v1 line 138, v2 line 169)
PromptStep3(company_name, job_title, instructor) ==
    <<"In this role, you are writing a case study focused on the job of ">> \o job_title
    \o <<" at ">> \o company_name
    \o <<". In this role, please create a brief overview of the case study on ">>
    \o instructor.case_topic \o <<" which achieves the following learning objectives: ">>
    \o instructor.learning_objectives \o <<". The overview must follow this structure:\n">>
    \o case_structure

\* preceding_parts (v1 line 156, v2 line 187)
PrecedingParts(v, written_sections) ==
    IF written_sections /= <<>>
    THEN Join(IF v = "v1" THEN <<", ">> ELSE <<"\n\n">>, written_sections)
    ELSE <<"None">>

\* think_prompt (v2 lines 191-198)
ThinkPrompt(section, preceding_parts) ==
    <<"I am about to write the '", section.title, "' section of a case study.\nMy instructions for this section are: ">>
    \o section.description \o <<".\nThe context from previous sections is: ">>
    \o preceding_parts
    \o <<".\nDo I need more specific, real-time information ... Respond ONLY with a JSON object ...">>

NoSearchNote == <<"No new search was performed for this section.">>

\* write_prompt (v2 lines 215-222)
WritePromptV2(section, new_sources, preceding_parts) ==
    <<"In your defined role, please write out all details of the section '", section.title,
      "'.\nThe specific requirements for this section are: ">>
    \o section.description
    \o <<"\nI have performed a targeted search for you. Use these new sources to inform your writing:\n---\n">>
    \o (IF new_sources /= <<>> THEN new_sources ELSE NoSearchNote)
    \o <<"\n---\nPlease make sure to take into consideration the content of the preceding parts of the case study: ">>
    \o preceding_parts
    \o <<".\nIMPORTANT: Write ONLY the content for the section itself. Do not add meta-commentary.">>

\* prompt (v1 lines 158-175); outline is generation_results['3_outline']
WritePromptV1(section, preceding_parts, outline, instructor) ==
    <<"In your defined role, please write out all details of the section '", section.title,
      "' for the case study.\nThe specific requirements for this section are:\n---\n">>
    \o section.description
    \o <<"\n---\nPlease make sure to take into consideration the content of the preceding parts of the case study: ">>
    \o preceding_parts
    \o <<".\nThe overall case study outline is: '">> \o Fmt(outline)
    \o <<"'.\nAdd relevant details, ... aligned with these learning objectives: ">>
    \o instructor.learning_objectives
    \o <<".\nIMPORTANT INSTRUCTION: Your response for this section must contain ONLY the content for the section itself. ...">>
    \o (IF section.title = "Supplementary Materials"
        THEN <<"\nPlease make sure to create proper citations with corresponding URLs ...">>
        ELSE <<>>)
    \o (IF section.title = "Conclusion"
        THEN <<"\nPlease make sure to write elegantly ... aligned with these questions for the students: ">>
             \o instructor.student_questions \o <<".">>
        ELSE <<>>)

\* what v1 appends to written_sections (line 179) and what v2 appends (line 226)
WrittenEntry(v, section, section_content) ==
    IF v = "v1" THEN <<section.title>>
    ELSE <<"## ", section.title, "\n">> \o Fmt(section_content)

(***************************************************************************)
(* The agent's search decision (v2 lines 200-212).                         *)
(* The text of a "think" response is [fence, doc]: fence says that the     *)
(* text is wrapped in ```json ... ```, doc is what the text between the    *)
(* fences denotes.  A doc is [kind, search_needed, queries]; kind "prose"  *)
(* is text that is not JSON, the other kinds are JSON values.  A JSON      *)
(* member is [t, items]: t is its type ("absent" when the object lacks the *)
(* key) and items what iterating it yields.                                *)
(***************************************************************************)
JAbsent == [t |-> "absent", items |-> <<>>]

JTrue == [t |-> "true", items |-> <<>>]

JFalse == [t |-> "false", items |-> <<>>]

JNumber == [t |-> "number", items |-> <<>>]

\* a JSON string; iterating a Python str yields its characters
JString(chars) == [t |-> "string", items |-> chars]

JList(items) == [t |-> "list", items |-> items]

JObject(sn, q) == [kind |-> "object", search_needed |-> sn, queries |-> q]

JOther(kind) == [kind |-> kind, search_needed |-> JAbsent, queries |-> JAbsent]

\* Python truthiness of dict.get(key): None, False, "", [] and 0 are falsy; the
\* number of the model is not 0
Truthy(j) ==
    \/ j.t = "true"
    \/ j.t = "number"
    \/ j.t \in {"string", "list"} /\ j.items /= <<>>

\* `for query in queries` raises TypeError unless queries is a list or a str
Iterable(j) == j.t \in {"string", "list"}

\* the fail-open default of line 206
DefaultDecision == JObject(JFalse, JList(<<>>))

\* .strip().replace("```json", "").replace("```", "") of line 203
CleanJsonText(text) == [fence |-> FALSE, doc |-> text.doc]

\* json.loads of line 204: [raised, value]
JsonLoads(text) ==
    IF text.fence \/ text.doc.kind = "prose"
    THEN [raised |-> "JSONDecodeError", value |-> DefaultDecision]
    ELSE [raised |-> "none", value |-> text.doc]

\* lines 202-206: query_response_text is the (possibly None) text of the think
\* call; only json.JSONDecodeError is caught.  [raised, decision]
ParseDecision(query_response_text) ==
    IF query_response_text.is_none
    THEN [raised |-> "AttributeError", decision |-> DefaultDecision]
    ELSE LET r == JsonLoads(CleanJsonText(query_response_text.s))
         IN  IF r.raised = "JSONDecodeError"
             THEN [raised |-> "none", decision |-> DefaultDecision]
             ELSE [raised |-> "none", decision |-> r.value]

\* the condition of line 210 on a decision that is a dict
SearchWanted(query_decision) ==
    Truthy(query_decision.search_needed) /\ Truthy(query_decision.queries)

\* the think responses the model draws from
ThinkDocs ==
    { JOther("prose"), JOther("array"), JOther("null"),
      JObject(JTrue, JList(<< <<"query one">>, <<"query two">> >>)),
      JObject(JFalse, JList(<<>>)),
      JObject(JTrue, JList(<<>>)),
      JObject(JFalse, JList(<< <<"query one">> >>)),
      JObject(JAbsent, JAbsent),
      JObject(JString(<<"y", "e", "s">>), JString(<< <<"a">>, <<"b">> >>)),
      JObject(JTrue, JNumber) }

ThinkTexts ==
    {[fence |-> FALSE, doc |-> d] : d \in ThinkDocs}
    \cup {[fence |-> TRUE, doc |-> d] :
            d \in {JObject(JTrue, JList(<< <<"query one">>, <<"query two">> >>)),
                   JObject(JFalse, JList(<<>>))}}

\* the text a generation call returns for the step named by key
GenText(key) == <<"generated text of", key[2]>>

\* what the search endpoint may answer to one query during a run
Hit == [title |-> "hit title", link |-> "https://example.org/1", snippet |-> "hit snippet"]

RunResponses ==
    {[ok |-> FALSE, items |-> <<>>], [ok |-> TRUE, items |-> <<>>],
     [ok |-> TRUE, items |-> <<Hit>>]}

(***************************************************************************)
(* Step 11.                                                                *)
(***************************************************************************)
Rule == <<"\n\n---\n\n">>

\* faulty variant of TitleLine: the heading names the topic only
TitleLineNoCompany(instructor, company_name) ==
    <<"# Case Study: ">> \o instructor.case_topic \o <<"\n\n">>

TitleLine(instructor, company_name) ==
    <<"# Case Study: ">> \o instructor.case_topic \o <<" for ">> \o company_name \o <<"\n\n">>

MODEL_NAME == <<"gemini-2.5-flash">>

Disclaimer ==
    <<"**_Disclaimer: This case study was written by ">> \o MODEL_NAME
    \o <<" and may contain hallucinations._**">> \o Rule

RECURSIVE CollateLoopV1(_, _, _, _)
\* the loop of v1 lines 186-190 from section k on; [raised, text].  Adding None
\* to a str raises TypeError.
CollateLoopV1(sections, results, final_text, k) ==
    IF k > Len(sections) THEN [raised |-> "none", text |-> final_text]
    ELSE LET key == SectionKey(sections[k])
         IN  IF key \in DOMAIN results
             THEN IF results[key].is_none
                  THEN [raised |-> "TypeError",
                        text |-> final_text \o <<"## ", sections[k].title, "\n\n">>]
                  ELSE CollateLoopV1(sections, results,
                                     final_text \o <<"## ", sections[k].title, "\n\n">>
                                         \o results[key].s \o Rule,
                                     k + 1)
             ELSE CollateLoopV1(sections, results, final_text, k + 1)

\* v1 lines 185-191
CollateV1(results, instructor, company_name) ==
    CollateLoopV1(sections_to_write("v1"), results, TitleLine(instructor, company_name), 1)

\* v2 lines 233-240
CollateV2(written_sections, instructor, company_name) ==
    [raised |-> "none",
     text |-> TitleLine(instructor, company_name) \o Disclaimer \o Join(Rule, written_sections)]

(***************************************************************************)
(* State.  The first three variables are st.session_state, which outlives  *)
(* a script run; the locals of the submit handler exist during one run     *)
(* only and are blank outside it.                                          *)
(***************************************************************************)
VARIABLES
    variant,             \* which script is deployed
    instructor_data,     \* st.session_state.instructor_data
    generation_results,  \* st.session_state.generation_results
    final_case_study,    \* st.session_state.final_case_study
    pc,                  \* position of the script run: "idle" between runs
    exception,           \* the uncaught exception that ended the last run
    company_name, job_title, instructor, chat_history, initial_sources,
    written_sections, sec, preceding_parts, query_decision, new_sources,
    write_prompt,        \* locals of the submit handler
    last_gemini,         \* arguments and return value of the last call_gemini
    calls,               \* the external calls of the current (or last) run, in order
    run_writes,          \* what the current (or last) run has stored, key by key
    search_call,         \* a call of the search client outside a run: arguments, result
    config_call          \* a start of the script: the secrets found, the loader's result

session == <<variant, instructor_data, generation_results, final_case_study>>

locals == <<company_name, job_title, instructor, chat_history, initial_sources,
            written_sections, sec, preceding_parts, query_decision, new_sources,
            write_prompt>>

vars == <<session, pc, exception, locals, last_gemini, calls, run_writes, search_call,
          config_call>>

EmptyMap == [k \in {} |-> NoneVal]

Put(m, key, value) == [k \in DOMAIN m \cup {key} |-> IF k = key THEN value ELSE m[k]]

NoCall == [made |-> FALSE]

BlankLocals ==
    /\ company_name = <<>> /\ job_title = <<>> /\ instructor = NoInstructor
    /\ chat_history = <<>> /\ initial_sources = <<>> /\ written_sections = <<>>
    /\ sec = 0 /\ preceding_parts = <<>> /\ query_decision = DefaultDecision
    /\ new_sources = <<>> /\ write_prompt = <<>>

\* the script run is over: its locals are gone
EndOfScript ==
    /\ company_name' = <<>> /\ job_title' = <<>> /\ instructor' = NoInstructor
    /\ chat_history' = <<>> /\ initial_sources' = <<>> /\ written_sections' = <<>>
    /\ sec' = 0 /\ preceding_parts' = <<>> /\ query_decision' = DefaultDecision
    /\ new_sources' = <<>> /\ write_prompt' = <<>>

\* session-state initialisation (v1 lines 42-47, v2 lines 49-54)
Init ==
    /\ variant \in Variants
    /\ instructor_data = NoInstructor
    /\ generation_results = EmptyMap
    /\ final_case_study = <<>>
    /\ pc = "idle"
    /\ exception = "none"
    /\ BlankLocals
    /\ last_gemini = NoCall
    /\ calls = <<>>
    /\ run_writes = EmptyMap
    /\ search_call = NoCall
    /\ config_call = NoCall

NumFailures == Cardinality({k \in DOMAIN generation_results : generation_results[k].is_none})

NumSearches == Cardinality({k \in DOMAIN generation_results : Len(k) = 3})

NumFaults == NumFailures + NumSearches

\* the outcomes of the generation endpoint for the step named by key
GenOutcomes(key) ==
    {[ok |-> TRUE, text |-> GenText(key)]}
    \cup (IF NumFaults < MaxFaults THEN {[ok |-> FALSE, text |-> <<>>]} ELSE {})

Record(prompt, history, outcome, ret) ==
    [made |-> TRUE, prompt |-> prompt, chat_history |-> history, ok |-> outcome.ok,
     text |-> outcome.text, ret |-> ret]

Call(fn, step, part) == [fn |-> fn, step |-> step, part |-> part]

\* st.session_state.generation_results[key] = value
Store(key, value) ==
    /\ generation_results' = Put(generation_results, key, value)
    /\ run_writes' = Put(run_writes, key, value)

\* "Save Instructor Setup" (v1 lines 90-96, v2 lines 107-112)
SaveInstructor ==
    /\ pc = "idle"
    /\ \E form \in InstructorForms(variant) : instructor_data' = form
    /\ UNCHANGED <<variant, generation_results, final_case_study, pc, exception, locals,
                   last_gemini, calls, run_writes>>
    /\ UNCHANGED <<search_call, config_call>>

\* faulty variant of FormShown: the student form is shown whatever was saved
FormShownAlways(data) == TRUE

\* the guard of the student tab: `if not st.session_state.instructor_data`
FormShown(data) == data /= NoInstructor

\* faulty variant of ClearedResults: the results of the run before are kept
ClearedResultsKeep(old) == old

\* st.session_state.generation_results = {} (v1 line 111, v2 line 126)
ClearedResults(old) == EmptyMap

\* "Generate Full Case Study" (v1 lines 110-114, v2 lines 125-129)
Submit ==
    /\ pc = "idle"
    /\ FormShown(instructor_data)
    /\ \E form \in StudentForms :
          /\ company_name' = form.company_name
          /\ job_title' = form.job_title
    /\ generation_results' = ClearedResults(generation_results)
    /\ run_writes' = EmptyMap
    /\ final_case_study' = <<>>
    /\ instructor' = instructor_data
    /\ chat_history' = <<>>
    /\ exception' = "none"
    /\ last_gemini' = NoCall
    /\ calls' = <<>>
    /\ pc' = IF variant = "v2" THEN "step0" ELSE "step1"
    /\ UNCHANGED <<variant, instructor_data, initial_sources, written_sections, sec,
                   preceding_parts, query_decision, new_sources, write_prompt>>
    /\ UNCHANGED <<search_call, config_call>>

\* step 0 (v2 lines 132-140)
Step0 ==
    /\ pc = "step0"
    /\ LET queries == InitialQueries(company_name, instructor)
       IN  \E responses \in [1..Len(queries) -> RunResponses], build_ok \in BOOLEAN :
              LET r == perform_google_search(queries, responses, build_ok, TRUE)
              IN  /\ initial_sources' = r.text
                  /\ Store(<<0, "initial_search">>, Str(r.text))
    /\ calls' = Append(calls, Call("perform_google_search", 0, "search"))
    /\ pc' = "step1"
    /\ UNCHANGED <<variant, instructor_data, final_case_study, exception, company_name,
                   job_title, instructor, chat_history, written_sections, sec,
                   preceding_parts, query_decision, new_sources, write_prompt, last_gemini>>
    /\ UNCHANGED <<search_call, config_call>>

\* step 1 (v1 lines 117-120, v2 lines 143-151): a stateless call
Step1 ==
    /\ pc = "step1"
    /\ LET prompt == PromptStep1(variant, company_name, instructor, initial_sources)
       IN  \E outcome \in GenOutcomes(<<1, "report">>) :
              LET ret == call_gemini(prompt, NoHistory, outcome)
              IN  /\ Store(<<1, "report">>, ret.text)
                  /\ chat_history' = DroppedHistory(chat_history, ret.history)
                  /\ last_gemini' = Record(prompt, NoHistory, outcome, ret)
    /\ calls' = Append(calls, Call("call_gemini", 1, "report"))
    /\ pc' = "step2"
    /\ UNCHANGED <<variant, instructor_data, final_case_study, exception, company_name,
                   job_title, instructor, initial_sources, written_sections, sec,
                   preceding_parts, query_decision, new_sources, write_prompt>>
    /\ UNCHANGED <<search_call, config_call>>

\* step 2 (v1 lines 123-133, v2 lines 154-164): no call, the history is seeded
Step2 ==
    /\ pc = "step2"
    /\ LET persona_prompt == PersonaPrompt(variant, company_name, job_title, instructor)
       IN  /\ Store(<<2, "persona_prompt">>, Str(persona_prompt))
           /\ chat_history' = chat_history
                  \o <<Turn("user", persona_prompt), Turn("model", PersonaAck)>>
    /\ pc' = "step3"
    /\ UNCHANGED <<variant, instructor_data, final_case_study, exception, company_name,
                   job_title, instructor, initial_sources, written_sections, sec,
                   preceding_parts, query_decision, new_sources, write_prompt,
                   last_gemini, calls>>
    /\ UNCHANGED <<search_call, config_call>>

\* step 3 (v1 lines 136-140, v2 lines 167-171), then the loop header
Step3 ==
    /\ pc = "step3"
    /\ LET prompt == PromptStep3(company_name, job_title, instructor)
       IN  \E outcome \in GenOutcomes(<<3, "outline">>) :
              LET ret == call_gemini(prompt, Hist(chat_history), outcome)
              IN  /\ Store(<<3, "outline">>, ret.text)
                  /\ chat_history' = ret.history.turns
                  /\ last_gemini' = Record(prompt, Hist(chat_history), outcome, ret)
    /\ calls' = Append(calls, Call("call_gemini", 3, "outline"))
    /\ written_sections' = <<>>
    /\ sec' = 1
    /\ pc' = IF variant = "v2" THEN "think" ELSE "write"
    /\ UNCHANGED <<variant, instructor_data, final_case_study, exception, company_name,
                   job_title, instructor, initial_sources, preceding_parts,
                   query_decision, new_sources, write_prompt>>
    /\ UNCHANGED <<search_call, config_call>>

\* an exception no handler catches ends the script run; session state stays
Uncaught(name) ==
    /\ exception' = name
    /\ pc' = "idle"
    /\ EndOfScript

\* faulty variant of Section: the loop takes the first section every time
SectionFirst == sections_to_write(variant)[1]

\* the loop variable of `for section in sections_to_write`
Section == sections_to_write(variant)[sec]

\* agent step A (v2 lines 186-206): the think call and the parse of its answer.
\* The history the call returns is dropped (`query_response_text, _ = ...`).
Think ==
    /\ pc = "think"
    /\ LET parts == PrecedingParts(variant, written_sections)
           think_prompt == ThinkPrompt(Section, parts)
       IN  \E outcome \in {[ok |-> TRUE, text |-> t] : t \in ThinkTexts}
                           \cup {[ok |-> FALSE, text |-> [fence |-> FALSE, doc |-> JOther("prose")]]} :
              LET ret == call_gemini(think_prompt, Hist(chat_history), outcome)
                  parsed == ParseDecision(ret.text)
              IN  /\ (parsed.decision.kind = "object" /\ SearchWanted(parsed.decision))
                        => NumFaults < MaxFaults
                  /\ last_gemini' = Record(think_prompt, Hist(chat_history), outcome, ret)
                  /\ IF parsed.raised /= "none"
                     THEN Uncaught(parsed.raised)
                     ELSE /\ preceding_parts' = parts
                          /\ query_decision' = parsed.decision
                          /\ chat_history' = DroppedHistory(chat_history, ret.history)
                          /\ pc' = "act"
                          /\ UNCHANGED <<exception, company_name, job_title, instructor,
                                         initial_sources, written_sections,
                                         sec, new_sources, write_prompt>>
    /\ calls' = Append(calls, Call("call_gemini", Section.step, "think"))
    /\ UNCHANGED <<session, run_writes>>
    /\ UNCHANGED <<search_call, config_call>>

\* agent step B (v2 lines 209-212); .get on a value that is no dict raises
\* AttributeError
Act ==
    /\ pc = "act"
    /\ IF query_decision.kind /= "object"
       THEN /\ Uncaught("AttributeError")
            /\ UNCHANGED <<session, last_gemini, calls, run_writes>>
       ELSE IF SearchWanted(query_decision)
       THEN /\ LET queries == query_decision.queries
               IN  \E responses \in [1..Len(queries.items) -> RunResponses],
                      build_ok \in BOOLEAN :
                      LET r == perform_google_search(queries.items, responses, build_ok,
                                                     Iterable(queries))
                      IN  /\ new_sources' = r.text
                          /\ Store(SearchKey(Section), Str(r.text))
            /\ calls' = Append(calls, Call("perform_google_search", Section.step, "search"))
            /\ pc' = "write"
            /\ UNCHANGED <<variant, instructor_data, final_case_study, exception,
                           company_name, job_title, instructor, chat_history,
                           initial_sources, written_sections, sec, preceding_parts,
                           query_decision, write_prompt, last_gemini>>
       ELSE /\ new_sources' = <<>>
            /\ pc' = "write"
            /\ UNCHANGED <<session, exception, company_name, job_title, instructor,
                           chat_history, initial_sources, written_sections, sec,
                           preceding_parts, query_decision, write_prompt, last_gemini,
                           calls, run_writes>>
    /\ UNCHANGED <<search_call, config_call>>

\* the section-writing call (v1 lines 155-179; v2 agent step C, lines 215-226)
Write ==
    /\ pc = "write"
    /\ LET parts == IF variant = "v1" THEN PrecedingParts(variant, written_sections)
                    ELSE preceding_parts
           prompt == IF variant = "v1"
                     THEN WritePromptV1(Section, parts,
                                        generation_results[<<3, "outline">>], instructor)
                     ELSE WritePromptV2(Section, new_sources, parts)
       IN  \E outcome \in GenOutcomes(SectionKey(Section)) :
              LET ret == call_gemini(prompt, Hist(chat_history), outcome)
              IN  /\ preceding_parts' = parts
                  /\ write_prompt' = prompt
                  /\ Store(SectionKey(Section), ret.text)
                  /\ chat_history' = ret.history.turns
                  /\ written_sections' =
                         Append(written_sections, WrittenEntry(variant, Section, ret.text))
                  /\ last_gemini' = Record(prompt, Hist(chat_history), outcome, ret)
    /\ calls' = Append(calls, Call("call_gemini", Section.step, "write"))
    /\ IF sec < NumSections
       THEN /\ sec' = sec + 1
            /\ pc' = IF variant = "v2" THEN "think" ELSE "write"
       ELSE /\ sec' = sec
            /\ pc' = "collate"
    /\ UNCHANGED <<variant, instructor_data, final_case_study, exception, company_name,
                   job_title, instructor, initial_sources, query_decision, new_sources>>
    /\ UNCHANGED <<search_call, config_call>>

\* step 11 (v1 lines 184-191, v2 lines 231-240); the script run ends here
Collate ==
    /\ pc = "collate"
    /\ LET r == IF variant = "v1"
                THEN CollateV1(generation_results, instructor, company_name)
                ELSE CollateV2(written_sections, instructor, company_name)
       IN  IF r.raised /= "none"
           THEN /\ Uncaught(r.raised)
                /\ UNCHANGED final_case_study
           ELSE /\ final_case_study' = r.text
                /\ pc' = "idle"
                /\ EndOfScript
                /\ UNCHANGED exception
    /\ UNCHANGED <<variant, instructor_data, generation_results, last_gemini, calls,
                   run_writes>>
    /\ UNCHANGED <<search_call, config_call>>

Next ==
    \/ SaveInstructor
    \/ Submit
    \/ Step0
    \/ Step1
    \/ Step2
    \/ Step3
    \/ Think
    \/ Act
    \/ Write
    \/ Collate

Spec == Init /\ [][Next]_vars

(***************************************************************************)
(* The search client on its own: perform_google_search applied to any      *)
(* batch of queries and any answers of the endpoint.                       *)
(***************************************************************************)
Links == {NoLink, "https://example.org/1", "https://example.org/2"}

HitTitles ==
    << <<"title 1.1", "title 1.2", "title 1.3", "title 1.4">>,
       <<"title 2.1", "title 2.2", "title 2.3", "title 2.4">>,
       <<"title 3.1", "title 3.2", "title 3.3", "title 3.4">>,
       <<"title 4.1", "title 4.2", "title 4.3", "title 4.4">> >>

\* the answers to query q: a failure, or up to MaxItems hits, each with a link of
\* Links and a title of its own
Responses(q) ==
    {[ok |-> FALSE, items |-> <<>>]}
    \cup {[ok |-> TRUE,
           items |-> [k \in 1..Len(ls) |->
                        [title |-> HitTitles[q][k], link |-> ls[k], snippet |-> "snippet"]]] :
            ls \in UNION {[1..n -> Links] : n \in 0..MaxItems}}

RECURSIVE ResponseBatches(_)
\* the answers to a batch of n queries, one per query
ResponseBatches(n) ==
    IF n = 0 THEN {<<>>}
    ELSE {Append(b, r) : b \in ResponseBatches(n - 1), r \in Responses(n)}

\* the batches of n queries: the same query n times, or two queries in turn
QueryBatches(n) ==
    {[q \in 1..n |-> <<"A">>], [q \in 1..n |-> IF q % 2 = 1 THEN <<"A">> ELSE <<"B">>]}

\* one call of the search client, made once
SearchCall ==
    /\ pc = "idle"
    /\ search_call = NoCall
    /\ \E n \in 0..MaxQueries :
          \E queries \in QueryBatches(n), build_ok \in BOOLEAN :
             \E responses \in IF build_ok THEN ResponseBatches(n) ELSE {<<>>} :
                search_call' = [made |-> TRUE, queries |-> queries, responses |-> responses,
                                build_ok |-> build_ok,
                                ret |-> perform_google_search(queries, responses, build_ok, TRUE)]
    /\ UNCHANGED <<session, pc, exception, locals, last_gemini, calls, run_writes,
                   config_call>>

NextSearch == SearchCall

\* only v2 has a search client
InitSearch == Init /\ variant = "v2"

SpecSearch == InitSearch /\ [][NextSearch]_vars

(***************************************************************************)
(* Configuration loader: load_api_key (v1) and load_credentials (v2).      *)
(* env maps a secret's name to what os.getenv returns after load_dotenv;   *)
(* NoValue is None or "".  store is [file, entries]: file is FALSE when    *)
(* there is no secrets file (st.secrets[...] raises FileNotFoundError),    *)
(* and an entry of MissingKey is a key st.secrets lacks (KeyError).        *)
(***************************************************************************)
NoValue == ""

MissingKey == "<KeyError>"

\* the secrets a variant needs, in the order in which it reads them
RequiredSecrets(v) ==
    IF v = "v1" THEN <<"GEMINI_API_KEY">>
    ELSE <<"GEMINI_API_KEY", "GOOGLE_SEARCH_API_KEY", "SEARCH_ENGINE_ID">>

\* load_api_key (v1 lines 17-34): [halted, keys]
load_api_key(env, store) ==
    LET name == "GEMINI_API_KEY"
        api_key == env[name]
    IN  IF api_key /= NoValue THEN [halted |-> FALSE, keys |-> [n \in {name} |-> api_key]]
        ELSE IF store.file /\ store.entries[name] \notin {MissingKey, NoValue}
        THEN [halted |-> FALSE, keys |-> [n \in {name} |-> store.entries[name]]]
        ELSE [halted |-> TRUE, keys |-> [n \in {name} |-> NoValue]]

RECURSIVE ReadSecrets(_, _, _, _)
\* the try block of v2 lines 27-32: the assignments run in order until one of
\* them raises KeyError; those made before it stay
ReadSecrets(names, store, keys, k) ==
    IF k > Len(names) \/ store.entries[names[k]] = MissingKey THEN keys
    ELSE ReadSecrets(names, store,
                     [keys EXCEPT ![names[k]] = store.entries[names[k]]], k + 1)

\* all([...]) of v2 lines 26 and 34
AllSet(keys) == \A n \in DOMAIN keys : keys[n] /= NoValue

\* load_credentials (v2 lines 19-38): [halted, keys]
load_credentials(env, store) ==
    LET names == RequiredSecrets("v2")
        local == [n \in {names[i] : i \in 1..Len(names)} |-> env[n]]
        keys == IF ~AllSet(local)
                THEN IF store.file THEN ReadSecrets(names, store, local, 1) ELSE local
                ELSE local
    IN  [halted |-> ~AllSet(keys), keys |-> keys]

\* what the local source may hold for a secret
EnvValues == {NoValue, "local value"}

\* what the secret store may hold for a secret
StoreValues == {MissingKey, NoValue, "store value"}

SecretNames(v) == {RequiredSecrets(v)[i] : i \in 1..Len(RequiredSecrets(v))}

\* one start of the script: the loader runs on what the two sources hold
LoadConfig ==
    /\ pc = "idle"
    /\ config_call = NoCall
    /\ \E env \in [SecretNames(variant) -> EnvValues],
          file \in BOOLEAN, entries \in [SecretNames(variant) -> StoreValues] :
          /\ file \/ \A n \in SecretNames(variant) : entries[n] = MissingKey
          /\ LET store == [file |-> file, entries |-> entries]
             IN  config_call' =
                    [made |-> TRUE, env |-> env, store |-> store,
                     ret |-> IF variant = "v1" THEN load_api_key(env, store)
                             ELSE load_credentials(env, store)]
    /\ UNCHANGED <<session, pc, exception, locals, last_gemini, calls, run_writes,
                   search_call>>

NextConfig == LoadConfig

SpecConfig == Init /\ [][NextConfig]_vars

(***************************************************************************)
(* Properties of the search client (checked under SpecSearch).             *)
(***************************************************************************)
RECURSIVE FlattenItems(_)
\* the hits of a batch of answers in the order the endpoint delivered them
FlattenItems(responses) ==
    IF responses = <<>> THEN <<>>
    ELSE responses[1].items \o FlattenItems(Tail(responses))

Arrived == FlattenItems(search_call.responses)

ArrivedUrls == {Arrived[i].link : i \in 1..Len(Arrived)} \ {NoLink}

FirstArrival(u) == CHOOSE i \in 1..Len(Arrived) :
    Arrived[i].link = u /\ \A j \in 1..(i - 1) : Arrived[j].link /= u

\* where the record of URL u starts in the returned text
RecordAt(text, u) == CHOOSE i \in 1..Len(text) :
    i + 3 <= Len(text) /\ text[i] = "- Title: " /\ text[i + 3] = u

AllAnswered ==
    /\ search_call.made
    /\ search_call.build_ok
    /\ \A q \in 1..Len(search_call.responses) : search_call.responses[q].ok

\* C5: when every query of a batch is answered, the returned text holds exactly
\* one record per distinct URL delivered (a hit without a link is no URL), the
\* record is that of the URL's first hit, and the records stand in the order in
\* which the URLs first arrived across the batch.
C5_DedupAcrossBatch ==
    AllAnswered =>
        LET text == search_call.ret.text
        IN  /\ Occurrences(text, <<"- Title: ">>) = Cardinality(ArrivedUrls)
            /\ \A u \in ArrivedUrls :
                  /\ Occurrences(text, <<"\n  URL: ", u>>) = 1
                  /\ \E i \in 1..Len(text) :
                        SubSeq(text, i, i + 6) = FormatItem(Arrived[FirstArrival(u)])
            /\ \A u, v \in ArrivedUrls :
                  FirstArrival(u) < FirstArrival(v) => RecordAt(text, u) < RecordAt(text, v)

\* C5 witness: two queries answered with the same URL, the second also with a new one
C5_Witness ==
    /\ AllAnswered
    /\ Len(search_call.responses) = 2
    /\ Cardinality(ArrivedUrls) = 2
    /\ \E i \in 1..Len(search_call.responses[1].items),
          j \in 1..Len(search_call.responses[2].items) :
          /\ search_call.responses[1].items[i].link /= NoLink
          /\ search_call.responses[1].items[i].link = search_call.responses[2].items[j].link

FirstFailure == CHOOSE q \in 1..Len(search_call.responses) :
    ~search_call.responses[q].ok /\ \A p \in 1..(q - 1) : search_call.responses[p].ok

\* C6: when a query of the batch fails (or the client cannot be built), the call
\* returns exactly "Search failed.", whatever the queries before it delivered,
\* and has issued no query after the failed one; the failure sentinel is not the
\* sentinel returned when every query is answered without a usable hit.
C6_FailureSentinel ==
    /\ SearchFailed /= NoNewResults
    /\ (search_call.made /\ search_call.build_ok /\ ~AllAnswered) =>
          /\ search_call.ret.text = SearchFailed
          /\ search_call.ret.issued = FirstFailure
    /\ (search_call.made /\ ~search_call.build_ok) =>
          /\ search_call.ret.text = SearchFailed
          /\ search_call.ret.issued = 0
    /\ (AllAnswered /\ ArrivedUrls = {}) => search_call.ret.text = NoNewResults

\* C6 witness: the first query delivered a usable hit, the second one failed
C6_Witness ==
    /\ search_call.made /\ search_call.build_ok
    /\ Len(search_call.responses) = 2
    /\ search_call.responses[1].ok
    /\ \E i \in 1..Len(search_call.responses[1].items) :
          search_call.responses[1].items[i].link /= NoLink
    /\ ~search_call.responses[2].ok
    /\ search_call.ret.text = SearchFailed

(***************************************************************************)
(* Properties of the generation run (checked under Spec).                  *)
(***************************************************************************)
Sections == sections_to_write(variant)

\* number of sections the current run has attempted to write
NumWritten == Len(written_sections)

\* the run of the current script has built the write prompt of section n
PromptBuilt(n) == pc /= "idle" /\ NumWritten = n /\ n >= 1

Stored(key) == key \in DOMAIN generation_results

HasText(key) == Stored(key) /\ ~generation_results[key].is_none

\* C1: the write prompt of a section holds, word for word, the generated text of
\* every section written before it in the same run.
C1_Continuity ==
    \A n \in 1..NumSections :
        PromptBuilt(n) =>
            \A j \in 1..(n - 1) :
                HasText(SectionKey(Sections[j])) =>
                    Contains(write_prompt, generation_results[SectionKey(Sections[j])].s)

\* the run that ended last went through every section step and on to step 11
ReachedCollation ==
    /\ pc = "idle"
    /\ \A j \in 1..NumSections : Stored(SectionKey(Sections[j]))

Heading(section) == <<"## ", section.title>>

\* C2: in the final document of a run, a section whose stored result is null has
\* neither heading nor body, and every section with a text is there with both.
C2_NullSectionsOmitted ==
    ReachedCollation =>
        \A j \in 1..NumSections :
            IF generation_results[SectionKey(Sections[j])].is_none
            THEN ~Contains(final_case_study, Heading(Sections[j]))
            ELSE /\ Contains(final_case_study, Heading(Sections[j]))
                 /\ Contains(final_case_study, generation_results[SectionKey(Sections[j])].s)

\* the last call of the run
LastCall == calls[Len(calls)]

\* the think call of the section at hand is the last generation call made
AfterThink ==
    /\ variant = "v2"
    /\ last_gemini.made
    /\ calls /= <<>>
    /\ \/ LastCall.part = "think"
       \/ /\ LastCall.part = "search"
          /\ LastCall.step >= 4

\* the schema {search_needed: boolean, queries: list of strings}
MatchesSchema(doc) ==
    /\ doc.kind = "object"
    /\ doc.search_needed.t \in {"true", "false"}
    /\ doc.queries.t = "list"

\* the think call failed, or its text is no JSON or JSON of another shape
InvalidThinkResponse ==
    \/ ~last_gemini.ok
    \/ ~MatchesSchema(last_gemini.text.doc)

\* C3: after a think response that is null, not JSON or not of the schema, the
\* decision used is {search_needed: false, queries: []} (or one that asks for no
\* search just the same), no search is made for the section and the run goes on
\* to the write call.
C3_FailOpenParse ==
    (AfterThink /\ InvalidThinkResponse) =>
        /\ exception = "none"
        /\ pc \in {"act", "write"}
        /\ query_decision.kind = "object" /\ ~SearchWanted(query_decision)
        /\ LastCall.part = "think"
        /\ pc = "write" => new_sources = <<>> /\ ~Stored(SearchKey(Section))

\* a script run has taken place and is over
RunOver == pc = "idle" /\ calls /= <<>>

\* the keys a complete run stores whatever the agent decides
StepKeys ==
    {<<1, "report">>, <<2, "persona_prompt">>, <<3, "outline">>}
    \cup {SectionKey(Sections[j]) : j \in 1..NumSections}
    \cup (IF variant = "v2" THEN {<<0, "initial_search">>} ELSE {})

\* C4: whatever calls fail, a run ends with every step's result stored (null for
\* a failed one), no exception raised and the final document set.
C4_RunCompletes ==
    RunOver =>
        /\ exception = "none"
        /\ StepKeys \subseteq DOMAIN generation_results
        /\ final_case_study /= <<>>

FailedCall == last_gemini.made /\ ~last_gemini.ok

\* the last generation call was the outline call or a write call
LastWasContinuationStep ==
    /\ calls /= <<>> /\ pc /= "idle"
    /\ \E i \in 1..Len(calls) :
          /\ calls[i].fn = "call_gemini" /\ calls[i].part \in {"outline", "write"}
          /\ \A j \in (i + 1)..Len(calls) : calls[j].fn /= "call_gemini"

\* C7: a failed generation call returns a null text and the very history it was
\* given, so after a failed outline or write step the run's history is the one
\* from before the step.
C7_FailureKeepsHistory ==
    FailedCall =>
        /\ last_gemini.ret.text = NoneVal
        /\ last_gemini.ret.history = last_gemini.chat_history
        /\ LastWasContinuationStep => chat_history = last_gemini.chat_history.turns

\* C7 witness: a write call of a later section has failed
C7_Witness ==
    /\ FailedCall
    /\ LastWasContinuationStep
    /\ LastCall.part = "write"
    /\ Len(last_gemini.chat_history.turns) >= 4
    /\ chat_history = last_gemini.chat_history.turns

\* C8: a successful call returns the generated text; without a history its
\* history is the two turns (user: prompt, model: text), with one it is the
\* given history followed by exactly those two turns.
C8_SuccessExtendsHistory ==
    (last_gemini.made /\ last_gemini.ok) =>
        LET given == IF last_gemini.chat_history.is_none THEN <<>>
                     ELSE last_gemini.chat_history.turns
            turns == last_gemini.ret.history.turns
        IN  /\ last_gemini.ret.text = Str(last_gemini.text)
            /\ ~last_gemini.ret.history.is_none
            /\ Len(turns) = Len(given) + 2
            /\ SubSeq(turns, 1, Len(given)) = given
            /\ turns[Len(given) + 1] = [role |-> "user", parts |-> last_gemini.prompt]
            /\ turns[Len(given) + 2] = [role |-> "model", parts |-> last_gemini.text]

\* C8 witness: a continuation call on a history of at least four turns succeeded
C8_Witness ==
    /\ last_gemini.made /\ last_gemini.ok
    /\ ~last_gemini.chat_history.is_none
    /\ Len(last_gemini.chat_history.turns) >= 4
    /\ Len(last_gemini.ret.history.turns) = Len(last_gemini.chat_history.turns) + 2

\* C9: while instructor_data is unset the student form cannot be submitted, no
\* run is in progress, no call has been made and generation_results is empty.
C9_NoRunWithoutInstructor ==
    instructor_data = NoInstructor =>
        /\ ~ENABLED Submit
        /\ pc = "idle"
        /\ calls = <<>>
        /\ last_gemini = NoCall
        /\ generation_results = EmptyMap

\* C9 witness: a run is storing results, and instructor_data is saved
C9_Witness ==
    /\ pc /= "idle"
    /\ generation_results /= EmptyMap
    /\ calls /= <<>>
    /\ instructor_data /= NoInstructor

\* a step of a run keeps every stored entry and adds at most one key
AppendOnlyStep ==
    /\ \A k \in DOMAIN generation_results :
          /\ k \in DOMAIN generation_results'
          /\ generation_results'[k] = generation_results[k]
    /\ Cardinality(DOMAIN generation_results') <= Cardinality(DOMAIN generation_results) + 1

\* C10: a run starts by emptying the mapping and the final document; a step of a
\* run only adds a key; the mapping holds exactly what the most recent run stored.
C10_ClearedThenAppendOnly ==
    /\ [](generation_results = run_writes)
    /\ [][ /\ (pc = "idle" /\ pc' /= "idle") =>
                (generation_results' = EmptyMap /\ final_case_study' = <<>>)
           /\ pc /= "idle" => AppendOnlyStep ]_vars

\* C10 witness: a run has stored an entry for every one of its steps
C10_Witness ==
    /\ pc = "collate"
    /\ Cardinality(DOMAIN generation_results) >= NumSections + 3
    /\ generation_results = run_writes

(***************************************************************************)
(* Properties of the configuration loader (checked under SpecConfig).      *)
(***************************************************************************)
\* the secret is there in the local source / in the secret store
InEnv(n) == config_call.env[n] /= NoValue

InStore(n) ==
    config_call.store.file /\ config_call.store.entries[n] \notin {MissingKey, NoValue}

\* C11: each required secret is taken from the local source when it is set
\* there and from the secret store only otherwise, and the loader halts exactly
\* when some required secret is in neither source.
C11_LocalFirst ==
    config_call.made =>
        /\ config_call.ret.halted <=>
               \E n \in SecretNames(variant) : ~InEnv(n) /\ ~InStore(n)
        /\ ~config_call.ret.halted =>
               \A n \in SecretNames(variant) :
                   config_call.ret.keys[n] =
                       IF InEnv(n) THEN config_call.env[n]
                       ELSE config_call.store.entries[n]

(***************************************************************************)
(* Properties of step 11 (checked under Spec).                             *)
(***************************************************************************)
\* the section entries of v2's written_sections as the mapping alone gives them
EntriesOf(results) ==
    [k \in 1..NumSections |->
        WrittenEntry("v2", sections_to_write("v2")[k],
                     results[SectionKey(sections_to_write("v2")[k])])]

\* step 11 run once more on the mapping, with the run's topic and company
Recollated ==
    IF variant = "v1" THEN CollateV1(generation_results, instructor, company_name)
    ELSE CollateV2(EntriesOf(generation_results), instructor, company_name)

\* C12: step 11 leaves the mapping as it is and produces a final document,
\* the one that running it again on the same mapping, topic and company
\* produces, also when section entries are null.
C12_CollationIdempotent ==
    [][pc = "collate" =>
          /\ generation_results' = generation_results
          /\ Recollated.raised = "none"
          /\ final_case_study' = Recollated.text]_vars

\* the titles of the sections in the order of the section list
SectionOrder ==
    <<"Introduction", "Case Study Narrative", "Analysis of Strategic Decisions",
      "Critical Discussion", "Reflection and Application", "Supplementary Materials",
      "Conclusion">>

\* the stored result of the k-th section
SectionResult(k) == generation_results[<<k + 3, SectionOrder[k]>>]

\* heading and text of the k-th section as the variant lays them out
SectionBlock(k) ==
    IF variant = "v1" THEN <<"## ", SectionOrder[k], "\n\n">> \o SectionResult(k).s
    ELSE <<"## ", SectionOrder[k], "\n">> \o Fmt(SectionResult(k))

RECURSIVE BlocksFrom(_)
\* the blocks of sections k.. with the rule line after each but the last; v1
\* puts the rule line after the last block too
BlocksFrom(k) ==
    IF k > Len(SectionOrder) THEN <<>>
    ELSE SectionBlock(k)
         \o (IF k < Len(SectionOrder) \/ variant = "v1" THEN <<"\n\n---\n\n">> ELSE <<>>)
         \o BlocksFrom(k + 1)

\* the layout of the final document for the run at hand
ExpectedDocument ==
    <<"# Case Study: ">> \o instructor.case_topic \o <<" for ">> \o company_name
    \o <<"\n\n">>
    \o (IF variant = "v2"
        THEN <<"**_Disclaimer: This case study was written by ", "gemini-2.5-flash",
               " and may contain hallucinations._**", "\n\n---\n\n">>
        ELSE <<>>)
    \o BlocksFrom(1)

\* C13: the final document of a run that completes is the title heading with
\* topic and company, then (v2) the disclaimer line, then the seven sections in
\* the order of SectionOrder, each under its heading and separated from the next
\* by the rule line.
C13_DocumentLayout ==
    [][(pc = "collate" /\ pc' = "idle" /\ exception' = "none") =>
          final_case_study' = ExpectedDocument]_vars

\* a run has completed and its document holds seven sections with their texts
C13_Witness ==
    /\ pc = "idle" /\ exception = "none"
    /\ final_case_study /= <<>>
    /\ \A k \in 1..Len(SectionOrder) :
          /\ HasText(<<k + 3, SectionOrder[k]>>)
          /\ Contains(final_case_study, SectionResult(k).s)
    /\ Occurrences(final_case_study, <<"\n\n---\n\n">>) >= Len(SectionOrder) - 1

(***************************************************************************)
(* Properties of the agent's search decision (checked under Spec).         *)
(***************************************************************************)
\* the decision has search_needed true and a non-empty list of queries
AsksForSearch(decision) ==
    /\ decision.kind = "object"
    /\ decision.search_needed.t = "true"
    /\ decision.queries.t = "list"
    /\ Len(decision.queries.items) > 0

\* the search client was called for the section at hand
SearchedForSection ==
    /\ calls /= <<>>
    /\ LastCall.part = "search"
    /\ LastCall.step = Section.step

\* C14: in v2, once agent step B of a section is over, the search client has
\* been called for the section and a search entry is stored exactly when the
\* decision has search_needed true and a non-empty list of queries; without it
\* the write prompt says that no new search was performed.
C14_SearchIffDecision ==
    /\ (variant = "v2" /\ pc = "write") =>
          /\ SearchedForSection <=> AsksForSearch(query_decision)
          /\ Stored(SearchKey(Section)) <=> AsksForSearch(query_decision)
    /\ \A n \in 1..NumSections :
          (variant = "v2" /\ PromptBuilt(n) /\ ~Stored(SearchKey(Sections[n]))) =>
              Contains(write_prompt, NoSearchNote)

(***************************************************************************)
(* Properties of the section-writing prompt (checked under Spec).          *)
(***************************************************************************)
\* the instructor fields every variant saves
SharedInstructorFields ==
    {"discipline", "target_audience", "case_topic", "learning_objectives",
     "student_questions"}

\* C15: the write prompt of every section step holds each saved instructor
\* field (discipline, target audience, case topic, learning objectives, student
\* questions) and the student's company name and job title.
C15_FullContextInPrompt ==
    \A n \in 1..NumSections :
        PromptBuilt(n) =>
            /\ \A f \in SharedInstructorFields : Contains(write_prompt, instructor[f])
            /\ Contains(write_prompt, company_name)
            /\ Contains(write_prompt, job_title)

(***************************************************************************)
(* Order of the steps and of the external calls (checked under Spec).      *)
(***************************************************************************)
\* the first external call of a run
FirstCallOk(c) ==
    IF variant = "v2" THEN c = Call("perform_google_search", 0, "search")
    ELSE c = Call("call_gemini", 1, "report")

\* call b is the one that follows call a in the fixed order
NextCallOk(a, b) ==
    CASE a.part = "search" /\ a.step = 0 -> b = Call("call_gemini", 1, "report")
      [] a.part = "report" -> b = Call("call_gemini", 3, "outline")
      [] a.part = "outline" ->
             b = Call("call_gemini", 4, IF variant = "v2" THEN "think" ELSE "write")
      [] a.part = "think" ->
             \/ b = Call("perform_google_search", a.step, "search")
             \/ b = Call("call_gemini", a.step, "write")
      [] a.part = "search" /\ a.step > 0 -> b = Call("call_gemini", a.step, "write")
      [] a.part = "write" ->
             /\ a.step < 10
             /\ b = Call("call_gemini", a.step + 1,
                         IF variant = "v2" THEN "think" ELSE "write")

\* the calls made so far in the run are a prefix of the fixed order
CallsInOrder ==
    /\ calls /= <<>> => FirstCallOk(calls[1])
    /\ \A i \in 1..(Len(calls) - 1) : NextCallOk(calls[i], calls[i + 1])

\* a step of a run goes on to the step that follows it in the fixed order, or
\* an exception ends the run; it issues at most one call, after those before it
StepInOrder ==
    /\ \/ calls' = calls
       \/ pc = "idle" /\ calls' = <<>>
       \/ \E c \in {calls'[Len(calls')]} : calls' = Append(calls, c)
    /\ pc /= "idle" =>
          \/ pc' = "idle" /\ (exception' /= "none" \/ pc = "collate")
          \/ pc = "step0" /\ pc' = "step1"
          \/ pc = "step1" /\ pc' = "step2"
          \/ pc = "step2" /\ pc' = "step3"
          \/ pc = "step3" /\ sec' = 1 /\ pc' = (IF variant = "v2" THEN "think" ELSE "write")
          \/ pc = "think" /\ sec' = sec /\ pc' = "act"
          \/ pc = "act" /\ sec' = sec /\ pc' = "write"
          \/ /\ pc = "write" /\ sec < NumSections /\ sec' = sec + 1
             /\ pc' = (IF variant = "v2" THEN "think" ELSE "write")
          \/ pc = "write" /\ sec = NumSections /\ pc' = "collate"

\* C16: the steps of a run are taken in the order (0,) 1, 2, 3, 4, ..., 10, 11,
\* none repeated, skipped or revisited, and its external calls are issued one
\* after the other in that order, in a section the think call before the
\* search, if any, and the search before the write call.
C16_FixedOrder == [](CallsInOrder) /\ [][StepInOrder]_vars

\* a v2 run has completed step 11 after a search made for one of its sections
C16_Witness ==
    /\ variant = "v2"
    /\ pc = "idle" /\ exception = "none" /\ final_case_study /= <<>>
    /\ Len(calls) >= 2 + 3 + 2 * NumSections
    /\ \E i \in 1..Len(calls) : calls[i].part = "search" /\ calls[i].step >= 4

(***************************************************************************)
(* Properties of the run's chat_history (checked under Spec).              *)
(***************************************************************************)
\* the history after the step is the history before it plus a user turn and a
\* model turn at its end
ExtendedByPair ==
    /\ Len(chat_history') = Len(chat_history) + 2
    /\ SubSeq(chat_history', 1, Len(chat_history)) = chat_history
    /\ chat_history'[Len(chat_history) + 1].role = "user"
    /\ chat_history'[Len(chat_history) + 2].role = "model"

\* step 2 makes the history the persona prompt and the fixed acknowledgment,
\* and calls nothing
SeededByPersona ==
    /\ chat_history' =
          << [role |-> "user", parts |-> generation_results'[<<2, "persona_prompt">>].s],
             [role |-> "model",
              parts |-> <<"Understood. I will now act as this persona for all subsequent tasks.">>] >>
    /\ calls' = calls
    /\ last_gemini' = last_gemini

HistoryStep ==
    /\ (pc = "idle" /\ pc' /= "idle") => chat_history' = <<>>
    /\ pc \in {"step0", "step1"} => chat_history' = <<>>
    /\ pc = "step2" => SeededByPersona
    /\ (pc \notin {"idle", "step0", "step1", "step2"} /\ pc' /= "idle") =>
          \/ chat_history' = chat_history
          \/ ExtendedByPair
    /\ (pc \notin {"idle", "step2"} /\ pc' /= "idle" /\ last_gemini'.made
        /\ ~last_gemini'.ok) => chat_history' = chat_history

\* C17: the run's history starts empty, is made the two persona turns at step 2
\* without a model call, and every later step leaves it as it is or adds one
\* user/model pair at its end; a step whose call fails leaves it as it is.
C17_HistoryMonotonic == [][HistoryStep]_vars

\* the history has grown to three pairs although a section call of the run failed
C17_Witness ==
    /\ pc /= "idle"
    /\ Len(chat_history) >= 6
    /\ chat_history[2].parts =
          <<"Understood. I will now act as this persona for all subsequent tasks.">>
    /\ \E j \in 1..NumSections :
          Stored(SectionKey(Sections[j])) /\ ~HasText(SectionKey(Sections[j]))

\* the outline call and the section-writing calls of the run that succeeded
SuccessfulContinuations ==
    Cardinality({k \in {<<3, "outline">>} \cup {SectionKey(Sections[j]) : j \in 1..NumSections} :
                    HasText(k)})

\* C18: only the outline call and the section-writing calls extend the run's
\* history: it is empty up to step 2, the report call and the think calls
\* leave it as it was, and the history passed to a write call has 2 turns plus 2
\* for every outline or write call that succeeded before it.
C18_HistoryLength ==
    /\ pc \in {"step0", "step1", "step2"} => chat_history = <<>>
    /\ (pc = "step2" /\ last_gemini.made) => last_gemini.chat_history.is_none
    /\ pc \in {"step3", "think", "act", "write", "collate"} =>
          Len(chat_history) = 2 + 2 * SuccessfulContinuations
    /\ pc = "act" => chat_history = last_gemini.chat_history.turns
    /\ (last_gemini.made /\ calls /= <<>> /\ LastCall.part = "write") =>
          Len(last_gemini.chat_history.turns) =
              2 + 2 * (SuccessfulContinuations - (IF last_gemini.ok THEN 1 ELSE 0))

\* the write call of a later section got a history of three pairs after think
\* calls and a failed call in the same run
C18_Witness ==
    /\ variant = "v2"
    /\ last_gemini.made /\ calls /= <<>>
    /\ LastCall.part = "write" /\ LastCall.step >= 7
    /\ Len(last_gemini.chat_history.turns) = 6
    /\ SuccessfulContinuations < LastCall.step - 2

====
